---- MODULE Spec2Model ----
\* Model of src/main.py: the POST /fetch-azure-boards handler fetch_azure_boards.
\*
\* Strings are sequences of one-character strings; the literal parts of an
\* f-string are kept as a single fragment.  JSON / Python values are tagged
\* records: None, str, int, dict (a function from keys to values), list.
EXTENDS Integers, Sequences, FiniteSets, TLC

VARIABLES
    pc,                  \* position of the handler in fetch_azure_boards
    payload,             \* FetchBoardsRequest
    where_clauses,       \* list of clause strings (line 33)
    wiql_query,          \* the query string of line 42
    calls,               \* remote calls issued so far, each with its outcome
    work_item_ids,       \* line 57
    i,                   \* loop variable of line 64
    detailed_workitems,  \* line 62
    simplified_results,  \* line 78
    exc,                 \* the exception travelling to the handler of line 105
    result               \* what the caller receives

vars == <<pc, payload, where_clauses, wiql_query, calls, work_item_ids, i,
          detailed_workitems, simplified_results, exc, result>>

--------------------------------------------------------------------------
\* Bounds

\* Longest identifier list the remote query returns.
MaxIds == 250

--------------------------------------------------------------------------
\* Python / JSON values

None == [tag |-> "None"]

PyStr(s) == [tag |-> "str", val |-> s]

PyInt(n) == [tag |-> "int", val |-> n]

PyDict(f) == [tag |-> "dict", val |-> f]

PyList(s) == [tag |-> "list", val |-> s]

EmptyDict == PyDict(<<>>)

\* isinstance(v, dict), isinstance(v, str)
IsDict(v) == v.tag = "dict"

IsStr(v) == v.tag = "str"

\* d.get(k, default) on a dict
Get(d, k, default) == IF k \in DOMAIN d.val THEN d.val[k] ELSE default

\* Truth value of an Optional[str]: None and "" are falsy.
Truthy(v) == v.tag = "str" /\ Len(v.val) > 0

Min(a, b) == IF a < b THEN a ELSE b

Digits == <<"0", "1", "2", "3", "4", "5", "6", "7", "8", "9">>

\* str(n) for a non-negative int: its decimal digits.
RECURSIVE IntToStr(_)
IntToStr(n) ==
    IF n < 10 THEN <<Digits[n + 1]>>
    ELSE IntToStr(n \div 10) \o <<Digits[(n % 10) + 1]>>

\* str(v) as used on line 57
Str(v) ==
    CASE v.tag = "int" -> IntToStr(v.val)
      [] v.tag = "str" -> v.val
      [] OTHER -> <<"N", "o", "n", "e">>

LowerChar(c) ==
    CASE c = "A" -> "a"
      [] c = "B" -> "b"
      [] c = "L" -> "l"
      [] c = "G" -> "g"
      [] c = "U" -> "u"
      [] OTHER -> c

\* str.lower()
Lower(s) == [k \in DOMAIN s |-> LowerChar(s[k])]

\* sep.join(parts): the parts with the separator between neighbours.  The
\* joined string is kept as its fragments (part, sep, part, ...).
Join(sep, parts) ==
    [k \in 1..(IF Len(parts) = 0 THEN 0 ELSE 2 * Len(parts) - 1) |->
        IF k % 2 = 1 THEN parts[(k + 1) \div 2] ELSE sep]

\* s[a:b] with 0 <= a <= b
Slice(s, a, b) == SubSeq(s, a + 1, Min(b, Len(s)))

--------------------------------------------------------------------------
\* Query builder (lines 33-43)

all == <<"a", "l", "l">>

AND == <<" AND ">>

ProjectClause(project) == <<"[System.TeamProject] = '">> \o project \o <<"'">>

TypeClause(t) == <<"[System.WorkItemType] = '">> \o t \o <<"'">>

AssigneeClause(a) == <<"[System.AssignedTo] CONTAINS '">> \o a \o <<"'">>

\* Variant: the comparison with 'all' forgets .lower().
WantsTypeCaseSensitive(work_item_type) ==
    Truthy(work_item_type) /\ work_item_type.val # all

\* line 34
WantsType(work_item_type) ==
    Truthy(work_item_type) /\ Lower(work_item_type.val) # all

\* line 36
WantsAssignee(assigned_to) == Truthy(assigned_to)

\* line 42
QueryText(where_string) ==
    <<<<"Select [System.Id], [System.Title], [System.State] From WorkItems WHERE ">>>>
        \o where_string

\* line 33
InitClauses ==
    /\ pc = "line33"
    /\ where_clauses' = <<ProjectClause(payload.project)>>
    /\ pc' = "line34"
    /\ UNCHANGED <<payload, wiql_query, calls, work_item_ids, i,
                   detailed_workitems, simplified_results, exc, result>>

\* lines 34-35
AppendTypeClause ==
    /\ pc = "line34"
    /\ where_clauses' =
         IF WantsType(payload.work_item_type)
         THEN Append(where_clauses, TypeClause(payload.work_item_type.val))
         ELSE where_clauses
    /\ pc' = "line36"
    /\ UNCHANGED <<payload, wiql_query, calls, work_item_ids, i,
                   detailed_workitems, simplified_results, exc, result>>

\* lines 36-37
AppendAssigneeClause ==
    /\ pc = "line36"
    /\ where_clauses' =
         IF WantsAssignee(payload.assigned_to)
         THEN Append(where_clauses, AssigneeClause(payload.assigned_to.val))
         ELSE where_clauses
    /\ pc' = "line39"
    /\ UNCHANGED <<payload, wiql_query, calls, work_item_ids, i,
                   detailed_workitems, simplified_results, exc, result>>

\* lines 39-46
BuildQuery ==
    /\ pc = "line39"
    /\ wiql_query' = QueryText(Join(AND, where_clauses))
    /\ pc' = "line49"
    /\ UNCHANGED <<payload, where_clauses, calls, work_item_ids, i,
                   detailed_workitems, simplified_results, exc, result>>

--------------------------------------------------------------------------
\* Remote collaborator

Pending == [tag |-> "pending"]

\* requests raised instead of returning a response (no connection, ...)
TransportFailure == [tag |-> "transport"]

\* A response: status, reason phrase and body.  The body is either text that
\* is no JSON document or a JSON value.
Response(status, reason, body) ==
    [tag |-> "response", status_code |-> status, reason |-> reason, body |-> body]

Text(t) == [json |-> FALSE, text |-> t]

Json(v) == [json |-> TRUE, data |-> v]

ErrorResponses ==
    { Response(401, "Unauthorized", Text("Access Denied")),
      Response(404, "Not Found", Json(PyDict([message |-> PyStr(<<"gone">>)]))),
      Response(500, "Internal Server Error", Text("")) }

\* The order in which the remote query lists identifiers.
IdOrders == {"ascending", "mixed"}

IdAt(order, k) == IF order = "ascending" THEN k ELSE ((k * 7) % 11) + 1

WiqlItems(order, n) == [k \in 1..n |-> PyDict([id |-> PyInt(IdAt(order, k))])]

WiqlResponses ==
    ErrorResponses
    \cup { Response(203, "Non-Authoritative Information", Text("<html>Sign In</html>")),
           Response(200, "OK", Json(PyList(<<>>))),
           Response(200, "OK", Json(EmptyDict)),
           Response(200, "OK",
                    Json(PyDict([workItems |-> PyList(<<PyDict([url |-> PyStr(<<"u">>)])>>)]))) }
    \cup { Response(200, "OK", Json(PyDict([workItems |-> PyList(WiqlItems(o, n))]))) :
             o \in IdOrders, n \in 0..MaxIds }

Jane == <<"J", "a", "n", "e">>

RawFull ==
    PyDict([id |-> PyInt(1),
            fields |-> PyDict(("System.Title" :> PyStr(<<"T">>))
                              @@ ("System.State" :> PyStr(<<"New">>))
                              @@ ("System.WorkItemType" :> PyStr(<<"Bug">>))
                              @@ ("System.AssignedTo" :>
                                    PyDict([displayName |-> PyStr(Jane)])))])

RawPlain ==
    PyDict([id |-> PyInt(2),
            fields |-> PyDict(("System.Title" :> PyStr(<<"U">>))
                              @@ ("System.AssignedTo" :> PyStr(Jane)))])

RawBare == PyDict([id |-> PyInt(3)])

RawNullFields == PyDict([id |-> PyInt(4), fields |-> None])

WorkitemsResponses ==
    ErrorResponses
    \cup { Response(200, "OK", Text("")),
           Response(200, "OK", Json(PyList(<<>>))),
           Response(200, "OK", Json(EmptyDict)),
           Response(200, "OK", Json(PyDict([value |-> PyList(<<RawFull, RawPlain>>)]))),
           Response(200, "OK", Json(PyDict([value |-> PyList(<<RawBare>>)]))),
           Response(200, "OK", Json(PyDict([value |-> PyList(<<RawNullFields>>)]))) }

--------------------------------------------------------------------------
\* Exceptions

Exception(type, msg) == [type |-> type, msg |-> msg]

\* Variant: raise_for_status is never called.
IsErrorStatusIgnored(status) == FALSE

\* requests.Response.raise_for_status (lines 54, 73): raises for 4xx and 5xx.
IsErrorStatus(status) == 400 <= status /\ status < 600

\* The message of an exception is a sequence of fragments: literal text, or
\* a value formatted into the message.
Lit(t) == [lit |-> t]

HTTPError(r, url) ==
    Exception("HTTPError",
              <<[status |-> r.status_code],
                Lit(IF r.status_code < 500 THEN " Client Error: " ELSE " Server Error: "),
                [reason |-> r.reason], Lit(" for url: "), [url |-> url]>>)

ConnectionError == Exception("ConnectionError", <<Lit("connection failed")>>)

JSONDecodeError == Exception("JSONDecodeError", <<Lit("Expecting value")>>)

AttributeError == Exception("AttributeError", <<Lit("object has no attribute 'get'")>>)

KeyError == Exception("KeyError", <<Lit("'id'")>>)

NoException == Exception("", <<>>)

Raised(e) == e.type # ""

--------------------------------------------------------------------------
\* Identifier resolver (lines 45-60)

WiqlUrl(p) ==
    [base |-> "https://dev.azure.com/", organization |-> p.organization,
     project |-> p.project, path |-> "/_apis/wit/wiql?api-version=7.1-preview.2"]

Call(method, url, body) ==
    [method |-> method, url |-> url, body |-> body, outcome |-> Pending]

Outstanding == {k \in DOMAIN calls : calls[k].outcome = Pending}

Complete(outcome) == [calls EXCEPT ![Len(calls)].outcome = outcome]

\* lines 49-53: the request leaves
PostWiql ==
    /\ pc = "line49"
    /\ calls' = Append(calls, Call("POST", WiqlUrl(payload), wiql_query))
    /\ pc' = "await49"
    /\ UNCHANGED <<payload, where_clauses, wiql_query, work_item_ids, i,
                   detailed_workitems, simplified_results, exc, result>>

\* item["id"] of every item of data.get("workItems", []) (line 57)
HasIds(data) ==
    \A k \in DOMAIN Get(data, "workItems", PyList(<<>>)).val :
        "id" \in DOMAIN Get(data, "workItems", PyList(<<>>)).val[k].val

ExtractIds(data) ==
    [k \in DOMAIN Get(data, "workItems", PyList(<<>>)).val |->
        Str(Get(data, "workItems", PyList(<<>>)).val[k].val["id"])]

\* What lines 54-57 raise on response r, or NoException.
WiqlRaises(r, url) ==
    IF IsErrorStatus(r.status_code) THEN HTTPError(r, url)
    ELSE IF ~r.body.json THEN JSONDecodeError
    ELSE IF ~IsDict(r.body.data) THEN AttributeError
    ELSE IF ~HasIds(r.body.data) THEN KeyError
    ELSE NoException

\* requests.post raises (line 49)
PostWiqlFails ==
    /\ pc = "await49"
    /\ calls' = Complete(TransportFailure)
    /\ exc' = ConnectionError
    /\ pc' = "line105"
    /\ UNCHANGED <<payload, where_clauses, wiql_query, work_item_ids, i,
                   detailed_workitems, simplified_results, result>>

\* requests.post returns r; lines 54-57
PostWiqlReturns(r) ==
    /\ pc = "await49"
    /\ calls' = Complete(r)
    /\ IF Raised(WiqlRaises(r, WiqlUrl(payload)))
       THEN /\ exc' = WiqlRaises(r, WiqlUrl(payload))
            /\ pc' = "line105"
            /\ UNCHANGED work_item_ids
       ELSE /\ work_item_ids' = ExtractIds(r.body.data)
            /\ pc' = "line59"
            /\ UNCHANGED exc
    /\ UNCHANGED <<payload, where_clauses, wiql_query, i,
                   detailed_workitems, simplified_results, result>>

NoItemsMessage ==
    <<PyDict([message |-> PyStr(<<"No work items found matching your criteria.">>)])>>

Return(workItems) == [kind |-> "return", workItems |-> workItems]

HTTPException(status_code, detail) ==
    [kind |-> "HTTPException", status_code |-> status_code, detail |-> detail]

\* Variant: an empty identifier list is reported as an error.
NoIdsIsNotFound == HTTPException(404, <<Lit("No work items found")>>)

\* line 60
NoIdsResult == Return(NoItemsMessage)

\* lines 59-63
CheckIds ==
    /\ pc = "line59"
    /\ IF Len(work_item_ids) = 0
       THEN /\ result' = NoIdsResult
            /\ pc' = "done"
            /\ UNCHANGED <<detailed_workitems, i>>
       ELSE /\ detailed_workitems' = <<>>
            /\ i' = 0
            /\ pc' = "line64"
            /\ UNCHANGED result
    /\ UNCHANGED <<payload, where_clauses, wiql_query, calls, work_item_ids,
                   simplified_results, exc>>

--------------------------------------------------------------------------
\* Batch hydrator (lines 62-76)

\* line 63
chunk_size == 100

\* Variant: the slice takes its end index as inclusive.
ChunkIdsInclusive(ids, start) == Slice(ids, start, start + chunk_size + 1)

\* line 65
ChunkIds(ids, start) == Slice(ids, start, start + chunk_size)

\* line 67
WorkitemsUrl(p, ids_str) ==
    [base |-> "https://dev.azure.com/", organization |-> p.organization,
     project |-> p.project, path |-> "/_apis/wit/workitems?ids=", ids |-> ids_str,
     fields |-> "&fields=System.Id,System.Title,System.State,System.WorkItemType,System.AssignedTo",
     version |-> "&api-version=7.1-preview.2"]

\* line 64: range(0, len(work_item_ids), chunk_size) still has a value
MoreChunks == i < Len(work_item_ids)

\* lines 64-72: the request for the chunk at i leaves
GetWorkitems ==
    /\ pc = "line64"
    /\ MoreChunks
    /\ calls' = Append(calls,
                       Call("GET",
                            WorkitemsUrl(payload, Join(<<",">>, ChunkIds(work_item_ids, i))),
                            None))
    /\ pc' = "await69"
    /\ UNCHANGED <<payload, where_clauses, wiql_query, work_item_ids, i,
                   detailed_workitems, simplified_results, exc, result>>

\* What lines 73-75 raise on response r, or NoException.
WorkitemsRaises(r, url) ==
    IF IsErrorStatus(r.status_code) THEN HTTPError(r, url)
    ELSE IF ~r.body.json THEN JSONDecodeError
    ELSE IF ~IsDict(r.body.data) THEN AttributeError
    ELSE NoException

\* requests.get raises (line 69)
GetWorkitemsFails ==
    /\ pc = "await69"
    /\ calls' = Complete(TransportFailure)
    /\ exc' = ConnectionError
    /\ pc' = "line105"
    /\ UNCHANGED <<payload, where_clauses, wiql_query, work_item_ids, i,
                   detailed_workitems, simplified_results, result>>

\* Variant: the items of a batch are put in front of the ones fetched before.
ExtendInFront(items, data) == Get(data, "value", PyList(<<>>)).val \o items

\* lines 75-76
Extend(items, data) == items \o Get(data, "value", PyList(<<>>)).val

\* Variant: a batch that raised is requested again (up to a few calls).
GetWorkitemsRetries(r) ==
    /\ pc = "await69"
    /\ calls' = Complete(r)
    /\ IF Raised(WorkitemsRaises(r, calls[Len(calls)].url))
       THEN IF Len(calls) < 4
            THEN /\ pc' = "line64"
                 /\ UNCHANGED <<detailed_workitems, i, exc>>
            ELSE /\ exc' = WorkitemsRaises(r, calls[Len(calls)].url)
                 /\ pc' = "line105"
                 /\ UNCHANGED <<detailed_workitems, i>>
       ELSE /\ detailed_workitems' = Extend(detailed_workitems, r.body.data)
            /\ i' = i + chunk_size
            /\ pc' = "line64"
            /\ UNCHANGED exc
    /\ UNCHANGED <<payload, where_clauses, wiql_query, work_item_ids,
                   simplified_results, result>>

\* requests.get returns r; lines 73-76 and the step of the loop
GetWorkitemsReturns(r) ==
    /\ pc = "await69"
    /\ calls' = Complete(r)
    /\ IF Raised(WorkitemsRaises(r, calls[Len(calls)].url))
       THEN /\ exc' = WorkitemsRaises(r, calls[Len(calls)].url)
            /\ pc' = "line105"
            /\ UNCHANGED <<detailed_workitems, i>>
       ELSE /\ detailed_workitems' = Extend(detailed_workitems, r.body.data)
            /\ i' = i + chunk_size
            /\ pc' = "line64"
            /\ UNCHANGED exc
    /\ UNCHANGED <<payload, where_clauses, wiql_query, work_item_ids,
                   simplified_results, result>>

\* line 64 exhausted; line 78
EndChunks ==
    /\ pc = "line64"
    /\ ~MoreChunks
    /\ simplified_results' = <<>>
    /\ pc' = "line79"
    /\ UNCHANGED <<payload, where_clauses, wiql_query, calls, work_item_ids, i,
                   detailed_workitems, exc, result>>

--------------------------------------------------------------------------
\* Normalization (lines 79-100)

NA == PyStr(<<"N", "/", "A">>)

Unassigned == PyStr(<<"Unassigned">>)

\* line 80
Fields(item) == Get(item, "fields", EmptyDict)

\* Variant: only the structured form is handled.
AssigneeNameDictOnly(assigned_to_field) ==
    IF IsDict(assigned_to_field) THEN Get(assigned_to_field, "displayName", Unassigned)
    ELSE Unassigned

\* lines 84-92
AssigneeName(assigned_to_field) ==
    IF IsDict(assigned_to_field) THEN Get(assigned_to_field, "displayName", Unassigned)
    ELSE IF IsStr(assigned_to_field) THEN assigned_to_field
    ELSE Unassigned

\* lines 94-100
Simplified(item) ==
    [ID |-> Get(item, "id", None),
     Title |-> Get(Fields(item), "System.Title", NA),
     State |-> Get(Fields(item), "System.State", NA),
     Type |-> Get(Fields(item), "System.WorkItemType", NA),
     AssignedTo |-> AssigneeName(Get(Fields(item), "System.AssignedTo", None))]

\* item.get / fields.get on something that is no dict (lines 80, 84)
NormalizeRaises(item) ==
    IF ~IsDict(item) THEN AttributeError
    ELSE IF ~IsDict(Fields(item)) THEN AttributeError
    ELSE NoException

\* one iteration of the loop of line 79
NormalizeItem ==
    /\ pc = "line79"
    /\ Len(simplified_results) < Len(detailed_workitems)
    /\ IF Raised(NormalizeRaises(detailed_workitems[Len(simplified_results) + 1]))
       THEN /\ exc' = NormalizeRaises(detailed_workitems[Len(simplified_results) + 1])
            /\ pc' = "line105"
            /\ UNCHANGED simplified_results
       ELSE /\ simplified_results' =
                 Append(simplified_results,
                        Simplified(detailed_workitems[Len(simplified_results) + 1]))
            /\ UNCHANGED <<pc, exc>>
    /\ UNCHANGED <<payload, where_clauses, wiql_query, calls, work_item_ids, i,
                   detailed_workitems, result>>

\* lines 102-103
ReturnResults ==
    /\ pc = "line79"
    /\ Len(simplified_results) = Len(detailed_workitems)
    /\ result' = Return(simplified_results)
    /\ pc' = "done"
    /\ UNCHANGED <<payload, where_clauses, wiql_query, calls, work_item_ids, i,
                   detailed_workitems, simplified_results, exc>>

--------------------------------------------------------------------------
\* Error surface (lines 105-108)

\* Variant: the remote status of an HTTP error is passed through.
FailurePassesStatus(e) ==
    HTTPException(IF e.type = "HTTPError" THEN e.msg[1].status ELSE 500, e.msg)

\* Variant: the message of the exception is dropped.
FailureGeneric(e) == HTTPException(500, <<Lit("Internal Server Error")>>)

\* line 108
Failure(e) == HTTPException(500, e.msg)

\* Variant: what was fetched before the exception is returned.
HandleExceptionPartial ==
    /\ pc = "line105"
    /\ result' = IF Len(detailed_workitems) > 0
                 THEN Return(detailed_workitems) ELSE Failure(exc)
    /\ pc' = "done"
    /\ UNCHANGED <<payload, where_clauses, wiql_query, calls, work_item_ids, i,
                   detailed_workitems, simplified_results, exc>>

HandleException ==
    /\ pc = "line105"
    /\ result' = Failure(exc)
    /\ pc' = "done"
    /\ UNCHANGED <<payload, where_clauses, wiql_query, calls, work_item_ids, i,
                   detailed_workitems, simplified_results, exc>>

--------------------------------------------------------------------------
\* The handler

NoResult == [kind |-> "none"]

Absent == None

Empty == PyStr(<<>>)

\* The request of the end-to-end scenario.
Requests ==
    [organization : {<<"a", "c", "m", "e">>},
     project : {<<"W", "e", "b">>},
     pat : {<<"p", "a", "t">>},
     work_item_type : {PyStr(<<"B", "u", "g">>)},
     assigned_to : {PyStr(<<"j", "a", "n", "e">>)}]

\* Every combination of the optional filters.
FilterRequests ==
    [organization : {<<"a", "c", "m", "e">>},
     project : {<<"W", "e", "b">>, <<"O", "p", "s">>},
     pat : {<<"p", "a", "t">>},
     work_item_type : {Absent, Empty,
                       PyStr(<<"a", "l", "l">>), PyStr(<<"A", "L", "L">>),
                       PyStr(<<"A", "l", "l">>), PyStr(<<"a", "l", "L">>),
                       PyStr(<<"B", "u", "g">>), PyStr(<<"b", "a", "l", "l">>),
                       PyStr(<<"a", "l">>)},
     assigned_to : {Absent, Empty, PyStr(<<"j", "a", "n", "e">>)}]

Start(requests) ==
    /\ pc = "line33"
    /\ payload \in requests
    /\ where_clauses = <<>>
    /\ wiql_query = <<>>
    /\ calls = <<>>
    /\ work_item_ids = <<>>
    /\ i = 0
    /\ detailed_workitems = <<>>
    /\ simplified_results = <<>>
    /\ exc = NoException
    /\ result = NoResult

Init == Start(Requests)

Next ==
    \/ InitClauses
    \/ AppendTypeClause
    \/ AppendAssigneeClause
    \/ BuildQuery
    \/ PostWiql
    \/ PostWiqlFails
    \/ \E r \in WiqlResponses : PostWiqlReturns(r)
    \/ CheckIds
    \/ GetWorkitems
    \/ GetWorkitemsFails
    \/ \E r \in WorkitemsResponses : GetWorkitemsReturns(r)
    \/ EndChunks
    \/ NormalizeItem
    \/ ReturnResults
    \/ HandleException

Spec == Init /\ [][Next]_vars

\* The handler runs to completion once started, and every remote call ends.
FairSpec == Spec /\ WF_vars(Next)

\* The query builder alone, on every combination of the filters.
InitQuery == Start(FilterRequests)

NextQuery ==
    \/ InitClauses
    \/ AppendTypeClause
    \/ AppendAssigneeClause
    \/ BuildQuery

SpecQuery == InitQuery /\ [][NextQuery]_vars

\* The normalization alone, on raw items of every shape.
TextKeys == {"System.Title", "System.State", "System.WorkItemType"}

AssigneeShapes ==
    { PyDict([displayName |-> PyStr(Jane)]),
      PyDict([displayName |-> PyStr(Jane), uniqueName |-> PyStr(<<"j", "@", "x">>)]),
      PyDict([displayName |-> None]),
      PyDict([uniqueName |-> PyStr(<<"j", "@", "x">>)]),
      EmptyDict,
      PyStr(Jane),
      PyStr(<<>>),
      None,
      PyInt(7),
      PyList(<<PyStr(Jane)>>),
      [tag |-> "bool", val |-> TRUE] }

FieldsWith(keys, withAssignee, shape) ==
    PyDict([k \in keys \cup (IF withAssignee THEN {"System.AssignedTo"} ELSE {}) |->
              IF k = "System.AssignedTo" THEN shape ELSE PyStr(<<k>>)])

FieldShapes ==
    { FieldsWith(keys, TRUE, shape) : keys \in SUBSET TextKeys, shape \in AssigneeShapes }
    \cup { FieldsWith(keys, FALSE, None) : keys \in SUBSET TextKeys }
    \cup { None, PyStr(<<"x">>) }

RawShapes ==
    { PyDict([id |-> PyInt(7), fields |-> f]) : f \in FieldShapes }
    \cup { PyDict([id |-> PyInt(7)]), PyDict([fields |-> EmptyDict]), PyStr(<<"x">>) }

InitNormalize ==
    /\ pc = "line79"
    /\ payload \in Requests
    /\ where_clauses = <<>>
    /\ wiql_query = <<>>
    /\ calls = <<>>
    /\ work_item_ids = <<>>
    /\ i = 0
    /\ detailed_workitems \in { <<a>> : a \in RawShapes } \cup { <<RawFull, a>> : a \in RawShapes }
    /\ simplified_results = <<>>
    /\ exc = NoException
    /\ result = NoResult

NextNormalize ==
    \/ NormalizeItem
    \/ ReturnResults
    \/ HandleException

SpecNormalize == InitNormalize /\ [][NextNormalize]_vars

--------------------------------------------------------------------------
\* Properties

Gets == SelectSeq(calls, LAMBDA c : c.method = "GET")

Posts == SelectSeq(calls, LAMBDA c : c.method = "POST")

\* The call got a response (it neither is pending nor failed in transport).
Answered(c) == c.outcome.tag = "response"

SuccessStatus(c) == 200 <= c.outcome.status_code /\ c.outcome.status_code < 300

\* The call got a response with a non-success status.
NonSuccess(c) == Answered(c) /\ ~SuccessStatus(c)

\* The call completed successfully: a success status and a JSON object.
Successful(c) ==
    /\ Answered(c)
    /\ SuccessStatus(c)
    /\ c.outcome.body.json
    /\ c.outcome.body.data.tag = "dict"

\* The identifiers a bulk-fetch URL carries: the parts between the commas.
SplitIds(ids_str) == [k \in 1..((Len(ids_str) + 1) \div 2) |-> ids_str[2 * k - 1]]

Failed == result.kind = "HTTPException"

Returned == result.kind = "return"

WiqlYieldsNoIds ==
    /\ Len(calls) >= 1
    /\ Successful(calls[1])
    /\ \/ "workItems" \notin DOMAIN calls[1].outcome.body.data.val
       \/ Len(calls[1].outcome.body.data.val.workItems.val) = 0

\* C1: when the query-submission response succeeds and yields zero
\* identifiers, the invocation goes straight to a successful return: no
\* exception is raised and no bulk-fetch call is ever issued.
C1_NoFetchOnZeroIds ==
    WiqlYieldsNoIds =>
        /\ Len(calls) = 1
        /\ ~Raised(exc)
        /\ pc \in {"line59", "done"}
        /\ pc = "done" => Returned

C1_Witness == WiqlYieldsNoIds /\ pc = "done" /\ Returned

\* Every bulk-fetch call issued so far completed successfully and the loop
\* over the batches is over.
AllFetched ==
    /\ pc \in {"line79", "line105", "done"}
    /\ Len(Gets) >= 1
    /\ \A k \in DOMAIN Gets : Successful(Gets[k])

\* C2: the k-th bulk-fetch call carries the k-th contiguous slice of the
\* identifier list, comma-joined: at most 100 identifiers, exactly 100 in
\* every call but the last; when all calls succeed there are ceil(n/100) of
\* them and the slices together are the whole list, in order.
C2_Batching ==
    LET n == Len(work_item_ids)
    IN /\ \A k \in DOMAIN Gets :
            LET ids == SplitIds(Gets[k].url.ids)
            IN /\ 1 <= Len(ids)
               /\ Len(ids) <= 100
               /\ k < Len(Gets) => Len(ids) = 100
               /\ Len(Gets[k].url.ids) = 2 * Len(ids) - 1
               /\ \A m \in 1..(Len(ids) - 1) : Gets[k].url.ids[2 * m] = <<",">>
               /\ \A m \in DOMAIN ids :
                    /\ 100 * (k - 1) + m <= n
                    /\ ids[m] = work_item_ids[100 * (k - 1) + m]
       /\ AllFetched =>
            /\ Len(Gets) = (n + 99) \div 100
            /\ Len(SplitIds(Gets[Len(Gets)].url.ids)) = n - 100 * (Len(Gets) - 1)

C2_Witness ==
    /\ AllFetched
    /\ Len(work_item_ids) = 250
    /\ Len(Gets) = 3
    /\ Len(SplitIds(Gets[1].url.ids)) = 100
    /\ Len(SplitIds(Gets[2].url.ids)) = 100
    /\ Len(SplitIds(Gets[3].url.ids)) = 50

FetchRejected == \E k \in DOMAIN calls : calls[k].method = "GET" /\ NonSuccess(calls[k])

\* What the caller receives holds no work item.
NoWorkItems(res) ==
    /\ "workItems" \notin DOMAIN res
    /\ \A k \in DOMAIN res.detail : \A m \in DOMAIN detailed_workitems :
          res.detail[k] # detailed_workitems[m]

QueryRejected == Len(calls) >= 1 /\ NonSuccess(calls[1])

NamesStatus(res, c) ==
    \E k \in DOMAIN res.detail : res.detail[k] = [status |-> c.outcome.status_code]

CarriesBody(res, c) ==
    \E k \in DOMAIN res.detail : res.detail[k] = [body |-> c.outcome.body]

C5_UniformFailure ==
    /\ Raised(exc) => pc \in {"line105", "done"}
    /\ (pc = "done" /\ Raised(exc)) =>
          /\ Failed
          /\ DOMAIN result = {"kind", "status_code", "detail"}
          /\ result.status_code = 500
    /\ (pc = "done" /\ \E k \in DOMAIN calls : ~Successful(calls[k])) => Raised(exc)

C5_Witness ==
    /\ pc = "done"
    /\ Failed
    /\ Len(Gets) = 2
    /\ NonSuccess(Gets[2])
    /\ Gets[2].outcome.status_code = 404

\* The text is 'all' in some letter case.
IsAll(t) ==
    /\ Len(t) = 3
    /\ t[1] \in {"a", "A"}
    /\ t[2] \in {"l", "L"}
    /\ t[3] \in {"l", "L"}

TypeExpected(p) ==
    /\ p.work_item_type.tag # "None"
    /\ Len(p.work_item_type.val) > 0
    /\ ~IsAll(p.work_item_type.val)

AssigneeExpected(p) == p.assigned_to.tag # "None" /\ Len(p.assigned_to.val) > 0

ClausesExpected(p) ==
    <<ProjectClause(p.project)>>
    \o (IF TypeExpected(p) THEN <<TypeClause(p.work_item_type.val)>> ELSE <<>>)
    \o (IF AssigneeExpected(p) THEN <<AssigneeClause(p.assigned_to.val)>> ELSE <<>>)

\* C6: the built query holds the project clause, then the type clause iff
\* work_item_type is present, non-empty and not 'all' in any letter case,
\* then the assignee clause iff assigned_to is present and non-empty, joined
\* with AND.
C6_Clauses ==
    /\ pc \notin {"line33", "line34", "line36"} => where_clauses = ClausesExpected(payload)
    /\ pc \notin {"line33", "line34", "line36", "line39"} =>
          /\ Len(wiql_query) = 2 * Len(where_clauses)
          /\ \A k \in DOMAIN where_clauses : wiql_query[2 * k] = where_clauses[k]
          /\ \A k \in 1..(Len(where_clauses) - 1) : wiql_query[2 * k + 1] = <<" AND ">>

C6_Witness ==
    /\ pc = "line49"
    /\ payload.work_item_type = PyStr(<<"A", "L", "L">>)
    /\ payload.assigned_to = PyStr(<<"j", "a", "n", "e">>)
    /\ Len(where_clauses) = 2

\* The assignee a raw item is expected to be normalized to.
AssigneeExpectedOf(raw) ==
    IF "fields" \notin DOMAIN raw.val THEN PyStr(<<"Unassigned">>)
    ELSE IF "System.AssignedTo" \notin DOMAIN raw.val.fields.val THEN PyStr(<<"Unassigned">>)
    ELSE LET a == raw.val.fields.val["System.AssignedTo"]
         IN CASE a.tag = "dict" ->
                   IF "displayName" \in DOMAIN a.val THEN a.val.displayName
                   ELSE PyStr(<<"Unassigned">>)
              [] a.tag = "str" -> a
              [] OTHER -> PyStr(<<"Unassigned">>)

\* The raw item is a record whose fields, when present, are a mapping.
WellFormed(raw) ==
    /\ raw.tag = "dict"
    /\ "fields" \in DOMAIN raw.val => raw.val.fields.tag = "dict"

\* C7: AssignedTo is the displayName of a structured assignee that has one,
\* the string itself for a plain string, "Unassigned" in every other case;
\* no shape of the assignee makes the normalization raise.
C7_Assignee ==
    /\ \A k \in DOMAIN simplified_results :
          simplified_results[k].AssignedTo = AssigneeExpectedOf(detailed_workitems[k])
    /\ Raised(exc) => ~WellFormed(detailed_workitems[Len(simplified_results) + 1])
    /\ pc = "done" =>
          (Returned <=> \A k \in DOMAIN detailed_workitems : WellFormed(detailed_workitems[k]))

C7_Witness ==
    /\ pc = "done"
    /\ Returned
    /\ Len(result.workItems) = 2
    /\ "fields" \in DOMAIN detailed_workitems[2].val
    /\ "System.AssignedTo" \in DOMAIN detailed_workitems[2].val.fields.val
    /\ detailed_workitems[2].val.fields.val["System.AssignedTo"].tag = "int"
    /\ result.workItems[2].AssignedTo = PyStr(<<"Unassigned">>)
    /\ result.workItems[1].AssignedTo = PyStr(Jane)

ValueOf(c) ==
    IF "value" \in DOMAIN c.outcome.body.data.val
    THEN c.outcome.body.data.val.value.val ELSE <<>>

\* The raw items of the bulk-fetch responses, in call order.
RECURSIVE RawItemsOf(_)
RawItemsOf(gets) ==
    IF Len(gets) = 0 THEN <<>>
    ELSE RawItemsOf(SubSeq(gets, 1, Len(gets) - 1)) \o ValueOf(gets[Len(gets)])

\* C8: on full success the returned list has one item per raw item of the
\* bulk-fetch responses, in the order of the concatenated responses, the
\* k-th ID being the identifier of the k-th raw item.
C8_OutputOrder ==
    (pc = "done" /\ Returned /\ Len(Gets) >= 1) =>
        /\ Len(result.workItems) = Len(RawItemsOf(Gets))
        /\ \A k \in DOMAIN result.workItems :
              result.workItems[k].ID = RawItemsOf(Gets)[k].val.id

C8_Witness ==
    /\ pc = "done"
    /\ Returned
    /\ Len(Gets) = 3
    /\ Len(result.workItems) = 5
    /\ result.workItems[1].ID = PyInt(3)
    /\ result.workItems[2].ID = PyInt(1)

\* C9: at most one remote call is outstanding; the one query-submission call
\* is the first call, and every later call is a bulk-fetch call issued after
\* the call before it completed successfully.
C9_Sequential ==
    /\ Cardinality(Outstanding) <= 1
    /\ \A k \in DOMAIN calls : (k = 1) <=> (calls[k].method = "POST")
    /\ \A k \in 2..Len(calls) : Successful(calls[k - 1])

C9_Witness ==
    /\ Len(calls) = 4
    /\ calls[4].outcome = Pending
    /\ Cardinality(Outstanding) = 1

\* Every remote call issued got a response.
Responded == \A k \in DOMAIN calls : Answered(calls[k])

QueryFailureExit == Failed /\ Len(calls) = 1 /\ NonSuccess(calls[1])

EarlySuccessExit == Returned /\ Len(calls) = 1 /\ Len(work_item_ids) = 0

FetchFailureExit == Failed /\ Len(calls) > 1 /\ NonSuccess(calls[Len(calls)])

FullSuccessExit == Returned /\ Len(calls) > 1 /\ result.workItems = simplified_results

\* The responses all had a success status and one of them could not be used.
MalformedExit == Failed /\ \A k \in DOMAIN calls : ~NonSuccess(calls[k])

Count(exits) == Cardinality({k \in DOMAIN exits : exits[k]})

\* C10 as stated: with every remote call answered, a finished invocation
\* took exactly one of the four exits.
C10_FourExits ==
    (pc = "done" /\ Responded) =>
        Count(<<QueryFailureExit, EarlySuccessExit, FetchFailureExit, FullSuccessExit>>) = 1

\* The query-submission call is issued once and no batch is requested twice.
NoRetry ==
    /\ Len(Posts) <= 1
    /\ pc = "done" => Len(Posts) = 1
    /\ Len(Gets) <= (Len(work_item_ids) + 99) \div 100
    /\ \A k \in DOMAIN Gets :
          SplitIds(Gets[k].url.ids)[1] = work_item_ids[100 * (k - 1) + 1]

\* C10 as amended: every invocation terminates; with every remote call
\* answered it took exactly one of five exits (the four, or the failure on a
\* response of success status that could not be used); nothing is retried.
C10_FiveExits ==
    /\ <>(pc = "done")
    /\ [](NoRetry)
    /\ []((pc = "done" /\ Responded) =>
            Count(<<QueryFailureExit, EarlySuccessExit, FetchFailureExit,
                    FullSuccessExit, MalformedExit>>) = 1)

C10_Witness ==
    /\ pc = "done"
    /\ Responded
    /\ MalformedExit
    /\ Len(Gets) = 3

====
